---- MODULE Spec2Model ----
(***************************************************************************)
(* Model of cmdchatgpt: the ChatOpenAI conversation object                 *)
(* (src/cmdchatgpt/openai_util.py) and the ChatDatabase store              *)
(* (src/cmdchatgpt/database.py).                                           *)
(*                                                                         *)
(* Python values are represented as follows.                               *)
(*   dict            a function from key strings to values                 *)
(*   list of dicts   a sequence                                            *)
(*   a list object that may be shared between two owners                   *)
(*                   [live, items]: live = TRUE is a reference to the      *)
(*                   conversation's own self.messages list, live = FALSE   *)
(*                   is an independent list holding items                  *)
(*   list / tuple    an exchange-log entry carries kind "list" or "tuple"  *)
(*   None            the string "None"                                     *)
(***************************************************************************)
EXTENDS Naturals, Integers, Sequences, FiniteSets, TLC

VARIABLES chat, alive, last, db, got, dblast, putlog, table, opened,
          conn, lock, pending, hist, render, objs, rows, refs, snap

vars == <<chat, alive, last, db, got, dblast, putlog, table, opened,
          conn, lock, pending, hist, render, objs, rows, refs, snap>>

\* the store as one handle sees it, and the handles working side by side
storevars == <<db, got, dblast, putlog, table, opened>>
concvars == <<conn, lock, pending, hist>>
\* the last rendering, and the conversation objects around one store
rendervars == <<render>>
snapvars == <<objs, rows, refs, snap>>

\* ------------------------------------------------------------------ bounds
MaxMsgs == 2
MaxLog == 1
\* longest conversation a command-line run may leave in the store
MaxCliMsgs == 4
\* rendering: pieces a text is put together from, sections and inline parts
\* of the structured texts, messages of a rendered conversation
MaxPieces == 5
MaxSections == 2
MaxParts == 3
MaxRenderMsgs == 2
\* conversation objects around one store, and calls that change one
MaxObjs == 2
MaxMutations == 2

\* ------------------------------------------------------------ input sets
Roles == {"user", "system", "assistant"}
Contents == {"q"}
ReplyContents == {"r"}
EmptyDict == [k \in {} |-> "None"]
KwSet == {EmptyDict, [temperature |-> "1.0"]}
CtorKwSet == {EmptyDict, [temperature |-> "0.5"]}
Names == {"default", "work"}

\* ------------------------------------------------------------ dict helpers
\* a | b on dicts: b wins key by key
PyOr(a, b) == [k \in (DOMAIN a) \cup (DOMAIN b) |-> IF k \in DOMAIN b THEN b[k] ELSE a[k]]

\* d[k] = v
DictSet(d, k, v) == [x \in (DOMAIN d) \cup {k} |-> IF x = k THEN v ELSE d[x]]

\* d.pop(k): the dict without key k
DictDel(d, k) == [x \in (DOMAIN d) \ {k} |-> d[x]]

\* kwargs.pop(k, default): the value taken out
DictPop(d, k, default) == IF k \in DOMAIN d THEN d[k] ELSE default

\* bool(x) of a str-or-None argument
Truthy(x) == x # "None" /\ x # ""

\* ------------------------------------------------------------ ChatOpenAI
DEFAULT_ARGS == [model |-> "gpt-4o"]

\* mutant: the initial content never triggers a send
ChatInit_NeverSend(user_content, kwargs) ==
    [chat |-> [args |-> PyOr(DEFAULT_ARGS, kwargs), messages |-> <<>>,
               prompts_and_responses |-> <<>>],
     send |-> FALSE]

\* ChatOpenAI.__init__ up to (not including) the optional User + Send:
\* the object's __dict__ and whether a Send follows.
ChatInit(user_content, kwargs) ==
    LET args0 == PyOr(DEFAULT_ARGS, DictPop(kwargs, "args", EmptyDict))
        messages == DictPop(kwargs, "messages", <<>>)
        par == DictPop(kwargs, "prompts_and_responses", <<>>)
        rest == DictDel(DictDel(DictDel(kwargs, "args"), "messages"), "prompts_and_responses")
    IN [chat |-> [args |-> PyOr(args0, rest),
                  messages |-> messages,
                  prompts_and_responses |-> par],
        send |-> Truthy(user_content)]

\* __bool__
ChatBool(c) == c.messages # <<>>

\* __len__
ChatLen(c) == Len(c.messages)

\* mutant: every attribute is compared
ChatEq_WholeDict(c, o) == c = o

\* __eq__
ChatEq(c, o) == c.messages = o.messages

\* mutant: a message equal to the last one is not appended again
Add_Dedup(c, role, content) ==
    IF c.messages # <<>> /\ c.messages[Len(c.messages)] = [role |-> role, content |-> content]
    THEN c
    ELSE [c EXCEPT !.messages = Append(@, [role |-> role, content |-> content])]

\* Add(role, content)
Add(c, role, content) ==
    [c EXCEPT !.messages = Append(@, [role |-> role, content |-> content])]

\* list.pop(index) as used by ChatOpenAI.pop: the list left behind and
\* whether IndexError was raised
pop(c, index) ==
    LET n == Len(c.messages)
        i == IF index < 0 THEN index + n ELSE index
    IN IF i < 0 \/ i >= n
       THEN [chat |-> c, exc |-> "IndexError"]
       ELSE [chat |-> [c EXCEPT !.messages =
                          SubSeq(@, 1, i) \o SubSeq(@, i + 2, n)],
             exc |-> "none"]

\* mutant: no copy is made, the same list object is handed back
deepcopy_SameList(messages) == [live |-> TRUE, items |-> <<>>]

\* copy.deepcopy(self.messages): an independent list
deepcopy(messages) == [live |-> FALSE, items |-> messages]

\* contents of the list object m as seen through conversation c
Deref(c, m) == IF m.live THEN c.messages ELSE m.items

\* what the Remote Completion Client can do with one request
RemoteOutcomes ==
    {[ok |-> FALSE, content |-> "None"]} \cup
    {[ok |-> TRUE, content |-> x] : x \in ReplyContents}

\* response.choices[0].message of a successful completion
ResponseMessage(remote) ==
    [role |-> "assistant", content |-> remote.content,
     function_call |-> "None", tool_calls |-> "None"]

\* json.loads(response.model_dump_json())
ResponseDict(remote) == [choices |-> <<[message |-> ResponseMessage(remote)]>>]

\* mutant: the conversation's own options win over the overrides
NewPrompt_ArgsWin(c, kw) ==
    DictSet(PyOr(kw, c.args), "messages", deepcopy(c.messages))

\* new_prompt of _Send0: the prompt sent to the server and archived
NewPrompt(c, kw) ==
    DictSet(PyOr(c.args, kw), "messages", deepcopy(c.messages))

\* the [new_prompt, response_dict] that _Send0 appends, a list or a tuple
LogEntry(kind, c, kw, remote) ==
    [kind |-> kind, prompt |-> NewPrompt(c, kw), response |-> ResponseDict(remote)]

\* mutant: the last message is removed on every failure, whatever the flag
Send0_AlwaysPop(c, remove_last_msg_on_fail, kw, remote) ==
    IF ~remote.ok
    THEN LET p == pop(c, -1)
         IN [chat |-> p.chat,
             exc |-> IF p.exc = "none" THEN "RemoteError" ELSE p.exc,
             calls |-> 1]
    ELSE [chat |-> [c EXCEPT !.prompts_and_responses =
                       Append(@, LogEntry("list", c, kw, remote))],
          exc |-> "none", calls |-> 1]

\* mutant: the prompt is archived before the request is sent
Send0_LogBeforeCall(c, remove_last_msg_on_fail, kw, remote) ==
    LET logged == [c EXCEPT !.prompts_and_responses =
                      Append(@, LogEntry("list", c, kw, remote))]
    IN IF ~remote.ok
       THEN IF remove_last_msg_on_fail
            THEN LET p == pop(logged, -1)
                 IN [chat |-> p.chat,
                     exc |-> IF p.exc = "none" THEN "RemoteError" ELSE p.exc,
                     calls |-> 1]
            ELSE [chat |-> logged, exc |-> "RemoteError", calls |-> 1]
       ELSE [chat |-> logged, exc |-> "none", calls |-> 1]

\* mutant: the entry is archived as a tuple (prompt, response)
Send0_TupleEntry(c, remove_last_msg_on_fail, kw, remote) ==
    IF ~remote.ok
    THEN IF remove_last_msg_on_fail
         THEN LET p == pop(c, -1)
              IN [chat |-> p.chat,
                  exc |-> IF p.exc = "none" THEN "RemoteError" ELSE p.exc,
                     calls |-> 1]
         ELSE [chat |-> c, exc |-> "RemoteError", calls |-> 1]
    ELSE [chat |-> [c EXCEPT !.prompts_and_responses =
                       Append(@, LogEntry("tuple", c, kw, remote))],
          exc |-> "none", calls |-> 1]

\* mutant: a failed request is sent a second time before giving up
Send0_Retry(c, remove_last_msg_on_fail, kw, remote) ==
    IF ~remote.ok
    THEN IF remove_last_msg_on_fail
         THEN LET p == pop(c, -1)
              IN [chat |-> p.chat,
                  exc |-> IF p.exc = "none" THEN "RemoteError" ELSE p.exc,
                  calls |-> 2]
         ELSE [chat |-> c, exc |-> "RemoteError", calls |-> 2]
    ELSE [chat |-> [c EXCEPT !.prompts_and_responses =
                       Append(@, LogEntry("list", c, kw, remote))],
          exc |-> "none", calls |-> 1]

\* _Send0(remove_last_msg_on_fail, **kw): the conversation afterwards, the
\* exception raised, and how many times the client was invoked
Send0(c, remove_last_msg_on_fail, kw, remote) ==
    IF ~remote.ok
    THEN IF remove_last_msg_on_fail
         THEN LET p == pop(c, -1)
              IN [chat |-> p.chat,
                  exc |-> IF p.exc = "none" THEN "RemoteError" ELSE p.exc,
                     calls |-> 1]
         ELSE [chat |-> c, exc |-> "RemoteError", calls |-> 1]
    ELSE [chat |-> [c EXCEPT !.prompts_and_responses =
                       Append(@, LogEntry("list", c, kw, remote))],
          exc |-> "none", calls |-> 1]

\* mutant: the reply is never appended to messages
Send_NoAppend(c, remove_last_msg_on_fail, kw, remote) ==
    Send0(c, remove_last_msg_on_fail, kw, remote)

\* Send(remove_last_msg_on_fail, **kw)
Send(c, remove_last_msg_on_fail, kw, remote) ==
    LET r == Send0(c, remove_last_msg_on_fail, kw, remote)
        response_message ==
            DictDel(DictDel(ResponseMessage(remote), "function_call"), "tool_calls")
    IN IF r.exc # "none"
       THEN r
       ELSE [chat |-> [r.chat EXCEPT !.messages = Append(@, response_message)],
             exc |-> "none", calls |-> r.calls]

\* mutant: the send is made without remove_last_msg_on_fail
ChatTurn_NoRollback(c, role, content, kw, remote) ==
    Send(Add(c, role, content), FALSE, kw, remote)

\* UserChat / SystemChat / AssistantChat: append, then _Chat0(True, **kw)
ChatTurn(c, role, content, kw, remote) ==
    Send(Add(c, role, content), TRUE, kw, remote)

\* ------------------------------------------------------------ JSON
\* one exchange-log entry with its shared lists read out
EntryView(c, e) ==
    [kind |-> e.kind,
     prompt |-> DictSet(e.prompt, "messages", Deref(c, e.prompt["messages"])),
     response |-> e.response]

\* the conversation as plain values (what == on its fields compares)
ChatView(c) ==
    [args |-> c.args,
     messages |-> c.messages,
     prompts_and_responses |->
        [i \in 1..Len(c.prompts_and_responses) |->
            EntryView(c, c.prompts_and_responses[i])]]

\* JSONDump: json.dumps(self.__dict__); lists and tuples both become arrays
JSONDump(c) ==
    [args |-> c.args,
     messages |-> c.messages,
     prompts_and_responses |->
        [i \in 1..Len(c.prompts_and_responses) |->
            <<EntryView(c, c.prompts_and_responses[i]).prompt,
              c.prompts_and_responses[i].response>>]]

\* json.loads: every array becomes a fresh list
JSONLoads(text) ==
    [k \in DOMAIN text |->
        IF k = "prompts_and_responses"
        THEN [i \in 1..Len(text[k]) |->
                [kind |-> "list",
                 prompt |-> DictSet(text[k][i][1], "messages",
                                    [live |-> FALSE,
                                     items |-> text[k][i][1]["messages"]]),
                 response |-> text[k][i][2]]]
        ELSE text[k]]

\* Chat(**json.loads(text))
Deserialize(text) == ChatInit("None", JSONLoads(text))

\* ------------------------------------------------------------ ChatDatabase
\* The table is a dict from name (the primary key) to the json column.

\* mutant: a conversation counts as empty as soon as it has no messages
AddChat_EmptyMessagesOnly(d, name, c) ==
    IF c.messages = <<>>
    THEN [db |-> d, ret |-> FALSE]
    ELSE [db |-> DictSet(d, name, JSONDump(c)), ret |-> TRUE]

\* mutant: INSERT OR IGNORE, an existing row is kept
AddChat_InsertOrIgnore(d, name, c) ==
    IF c.messages = <<>> /\ c.prompts_and_responses = <<>>
    THEN [db |-> d, ret |-> FALSE]
    ELSE [db |-> IF name \in DOMAIN d THEN d ELSE DictSet(d, name, JSONDump(c)),
          ret |-> TRUE]

\* mutant: the row is rewritten column by column and the old exchange log
\* is left in place
AddChat_KeepOldLog(d, name, c) ==
    IF c.messages = <<>> /\ c.prompts_and_responses = <<>>
    THEN [db |-> d, ret |-> FALSE]
    ELSE [db |-> DictSet(d, name,
                         IF name \in DOMAIN d
                         THEN [JSONDump(c) EXCEPT !.prompts_and_responses =
                                  d[name].prompts_and_responses]
                         ELSE JSONDump(c)),
          ret |-> TRUE]

\* AddChat(name, chat): the table afterwards and the bool returned
AddChat(d, name, c) ==
    IF c.messages = <<>> /\ c.prompts_and_responses = <<>>
    THEN [db |-> d, ret |-> FALSE]
    ELSE [db |-> DictSet(d, name, JSONDump(c)), ret |-> TRUE]

\* mutant: DELETE without its WHERE clause
DelChat_All(d, name) == EmptyDict

\* DelChat(name)
DelChat(d, name) == DictDel(d, name)

\* mutant: the row that was read is not used
GetChat_AlwaysFresh(d, name) == ChatInit("None", EmptyDict).chat

\* mutant: SELECT without its WHERE clause, the first row is used
GetChat_AnyRow(d, name) ==
    IF d = EmptyDict
    THEN ChatInit("None", EmptyDict).chat
    ELSE Deserialize(d[CHOOSE n \in DOMAIN d : TRUE]).chat

\* GetChat(name)
GetChat(d, name) ==
    IF name \notin DOMAIN d
    THEN ChatInit("None", EmptyDict).chat
    ELSE Deserialize(d[name]).chat

\* PopChat(name): the conversation returned and the table afterwards
PopChat(d, name) == [chat |-> GetChat(d, name), db |-> DelChat(d, name)]

\* ChatDB_Items: the (name, Chat) pairs that iterating a table yields
Items(o) == [name \in DOMAIN o |-> Deserialize(o[name]).chat]

\* the loop of __ior__: AddChat(name, chat) for each pair still to come
RECURSIVE IorRows(_, _, _)
IorRows(d, o, names) ==
    IF names = {}
    THEN d
    ELSE LET name == CHOOSE n \in names : TRUE
         IN IorRows(AddChat(d, name, Items(o)[name]).db, o, names \ {name})

\* mutant: a name that self already holds is skipped
Ior_KeepExisting(d, o) ==
    [self |-> IorRows(d, [n \in (DOMAIN o) \ (DOMAIN d) |-> o[n]],
                      (DOMAIN o) \ (DOMAIN d)),
     other |-> o]

\* self |= other: both tables afterwards
Ior(d, o) == [self |-> IorRows(d, o, DOMAIN o), other |-> o]

\* cur.execute("CREATE TABLE ..."); con.commit(): the file afterwards and the
\* error raised when the table is already there
CreateTable(hasTable, d) ==
    IF hasTable
    THEN [table |-> TRUE, db |-> d, exc |-> "OperationalError"]
    ELSE [table |-> TRUE, db |-> EmptyDict, exc |-> "none"]

\* mutant: the table is dropped and created again on every open
ChatDatabaseInit_Recreate(hasTable, d) ==
    [table |-> TRUE, db |-> EmptyDict, exc |-> "none"]

\* ChatDatabase.__init__: OperationalError from CREATE TABLE is swallowed
ChatDatabaseInit(hasTable, d) ==
    LET r == CreateTable(hasTable, d)
    IN [r EXCEPT !.exc = IF @ = "OperationalError" THEN "none" ELSE @]

\* ------------------------------------------------------------ state
NoChat == ChatInit("None", EmptyDict).chat

\* conversations a caller can hold, each built by the operations above
Reply == [ok |-> TRUE, content |-> "r"]
ChatUnsent == Add(NoChat, "user", "q")
ChatOnce == Send(ChatUnsent, FALSE, EmptyDict, Reply).chat
ChatPopped == pop(pop(ChatOnce, -1).chat, -1).chat
ChatTwice == ChatTurn(ChatOnce, "system", "q", [temperature |-> "1.0"], Reply).chat
ChatWarm == Add(ChatInit("None", [temperature |-> "1.0"]).chat, "system", "q")
SampleChats == {NoChat, ChatUnsent, ChatOnce, ChatPopped, ChatTwice, ChatWarm}

\* stores another handle can hold, each built by AddChat
StoreOne == AddChat(EmptyDict, "default", ChatOnce).db
StoreTwo == AddChat(AddChat(EmptyDict, "default", ChatTwice).db, "work", ChatUnsent).db
SampleStores == {EmptyDict, StoreOne, StoreTwo}

NoDbOp == [op |-> "none", name |-> "None", arg |-> NoChat, ret |-> FALSE,
           pre |-> EmptyDict, exc |-> "none", other |-> EmptyDict,
           after |-> EmptyDict]

\* the handles of the side-by-side runs
Handles == {1, 2}
ConcNames == {"default"}
ConcChats == {NoChat, ChatUnsent, ChatOnce}

\* a handle between two calls; after a call: what it was, what it returned
\* (got), the rows its DELETE removed, the exception it raised
IdleConn == [pc |-> "idle", op |-> "none", name |-> "None", arg |-> NoChat,
             got |-> NoChat, deleted |-> <<>>, exc |-> "none"]

\* the committed writes so far: the conversations put, and the last write
NoHist == [puts |-> {}, last |-> [kind |-> "none", chat |-> NoChat]]

NoOp == [op |-> "none", role |-> "None", content |-> "None", flag |-> FALSE,
         kw |-> EmptyDict, remote |-> "none", exc |-> "none", calls |-> 0,
         pre |-> NoChat]

\* nothing rendered yet
NoRender == [op |-> "None", role |-> "None", content |-> <<>>, messages |-> <<>>,
             palette |-> "None", guessed |-> FALSE,
             doc |-> [secs |-> <<>>, plain |-> <<<<>>>>], parts |-> <<>>,
             matches |-> <<>>, tail |-> <<>>, out |-> <<>>]

\* no call on a conversation object yet
NoSnap == [op |-> "None", h |-> 0, n |-> 0]

Init ==
    /\ chat = NoChat
    /\ alive = FALSE
    /\ last = NoOp
    /\ db = EmptyDict
    /\ got = NoChat
    /\ dblast = NoDbOp
    /\ putlog = EmptyDict
    /\ table = FALSE
    /\ opened = FALSE
    /\ conn = [h \in Handles |-> IdleConn]
    /\ lock = 0
    /\ pending = EmptyDict
    /\ hist = NoHist
    /\ render = NoRender
    /\ objs = <<>>
    /\ rows = EmptyDict
    /\ refs = <<>>
    /\ snap = NoSnap

RemoteTag(remote) == IF remote.ok THEN "ok" ELSE "fail"

\* the model's cap: a call that appends n messages is made only while they
\* fit, and a completion is delivered only while the log has room
Room(c, n, remote) ==
    /\ Len(c.messages) + n <= MaxMsgs
    /\ remote.ok => Len(c.prompts_and_responses) < MaxLog

\* c = ChatOpenAI(user_content, **kwargs)
Construct ==
    /\ ~alive
    /\ \E user_content \in {"None", ""} \cup Contents, kwargs \in CtorKwSet,
          remote \in RemoteOutcomes :
         LET i == ChatInit(user_content, kwargs)
             r == IF i.send
                  THEN Send(Add(i.chat, "user", user_content), FALSE, EmptyDict, remote)
                  ELSE [chat |-> i.chat, exc |-> "none", calls |-> 0]
         IN /\ IF i.send THEN Room(i.chat, 2, remote) ELSE ~remote.ok
            /\ chat' = IF r.exc = "none" THEN r.chat ELSE NoChat
            /\ alive' = (r.exc = "none")
            /\ last' = [NoOp EXCEPT !.op = "Construct", !.role = "user",
                                    !.content = user_content, !.kw = kwargs,
                                    !.remote = IF i.send THEN RemoteTag(remote) ELSE "none",
                                    !.exc = r.exc,
                                    !.calls = r.calls,
                                    !.pre = i.chat]
    /\ UNCHANGED <<storevars, concvars, rendervars, snapvars>>

Step(op, role, content, flag, kw, remote, calls, r) ==
    /\ chat' = r.chat
    /\ last' = [op |-> op, role |-> role, content |-> content, flag |-> flag,
                kw |-> kw, remote |-> remote, exc |-> r.exc, calls |-> calls,
                pre |-> chat]
    /\ UNCHANGED <<alive, storevars, concvars, rendervars, snapvars>>

\* c.User(content)
User ==
    /\ alive /\ Len(chat.messages) < MaxMsgs
    /\ \E content \in Contents :
         Step("User", "user", content, FALSE, EmptyDict, "none", 0,
              [chat |-> Add(chat, "user", content), exc |-> "none"])

\* c.System(content)
System ==
    /\ alive /\ Len(chat.messages) < MaxMsgs
    /\ \E content \in Contents :
         Step("System", "system", content, FALSE, EmptyDict, "none", 0,
              [chat |-> Add(chat, "system", content), exc |-> "none"])

\* c.Assistant(content)
Assistant ==
    /\ alive /\ Len(chat.messages) < MaxMsgs
    /\ \E content \in Contents :
         Step("Assistant", "assistant", content, FALSE, EmptyDict, "none", 0,
              [chat |-> Add(chat, "assistant", content), exc |-> "none"])

\* c.pop(index)
CallPop ==
    /\ alive
    /\ \E index \in {-1, 0} :
         Step("pop", "None", "None", FALSE, EmptyDict, "none", 0, pop(chat, index))

\* c.Send(remove_last_msg_on_fail, **kw)
CallSend ==
    /\ alive
    /\ \E flag \in BOOLEAN, kw \in KwSet, remote \in RemoteOutcomes :
         /\ Room(chat, 1, remote)
         /\ LET r == Send(chat, flag, kw, remote)
            IN Step("Send", "None", "None", flag, kw, RemoteTag(remote), r.calls, r)

\* c.UserChat(user_content, **kw), and c.Chat(user_content, **kw) which
\* returns self.UserChat(user_content, **kw)
UserChat ==
    /\ alive
    /\ \E content \in Contents, kw \in KwSet, remote \in RemoteOutcomes :
         /\ Room(chat, 2, remote)
         /\ LET r == ChatTurn(chat, "user", content, kw, remote)
            IN Step("UserChat", "user", content, TRUE, kw, RemoteTag(remote), r.calls, r)

\* c.SystemChat(system_content, **kw)
SystemChat ==
    /\ alive
    /\ \E content \in Contents, kw \in KwSet, remote \in RemoteOutcomes :
         /\ Room(chat, 2, remote)
         /\ LET r == ChatTurn(chat, "system", content, kw, remote)
            IN Step("SystemChat", "system", content, TRUE, kw, RemoteTag(remote), r.calls, r)

\* c.AssistantChat(assistant_content, **kw): Assistant() is handed **kw and
\* takes no keyword, so a non-empty kw raises TypeError before anything is
\* appended or sent
AssistantChat ==
    /\ alive
    /\ \E content \in Contents, kw \in KwSet, remote \in RemoteOutcomes :
         IF kw # EmptyDict
         THEN /\ ~remote.ok
              /\ Step("AssistantChat", "assistant", content, TRUE, kw, "none", 0,
                      [chat |-> chat, exc |-> "TypeError"])
         ELSE /\ Room(chat, 2, remote)
              /\ LET r == ChatTurn(chat, "assistant", content, kw, remote)
                 IN Step("AssistantChat", "assistant", content, TRUE, kw,
                         RemoteTag(remote), r.calls, r)

\* c = Chat(**json.loads(c.JSONDump()))
Reload ==
    /\ alive
    /\ last.op # "Reload"
    /\ LET d == Deserialize(JSONDump(chat))
       IN Step("Reload", "None", "None", FALSE, EmptyDict, "none",
               IF d.send THEN 1 ELSE 0, [chat |-> d.chat, exc |-> "none"])

Next ==
    \/ Construct
    \/ User
    \/ System
    \/ Assistant
    \/ CallPop
    \/ CallSend
    \/ UserChat
    \/ SystemChat
    \/ AssistantChat
    \/ Reload

Spec == Init /\ [][Next]_vars

\* ------------------------------------------------------------ store steps
\* db[name] = c, db.AddChat(name, c)
CallAddChat ==
    /\ opened
    /\ \E name \in Names, c \in SampleChats :
        LET r == AddChat(db, name, c)
        IN /\ db' = r.db
           /\ dblast' = [NoDbOp EXCEPT !.op = "AddChat", !.name = name,
                                        !.arg = c, !.ret = r.ret, !.pre = db]
           /\ putlog' = IF r.ret
                        THEN DictSet(putlog, name,
                                     [chat |-> c,
                                      replaced |-> name \in DOMAIN db,
                                      old |-> GetChat(db, name)])
                        ELSE putlog
           /\ UNCHANGED <<chat, alive, last, got, table, opened, concvars, rendervars, snapvars>>

\* db[name], db.GetChat(name)
CallGetChat ==
    /\ opened
    /\ \E name \in Names :
        /\ got' = GetChat(db, name)
        /\ dblast' = [NoDbOp EXCEPT !.op = "GetChat", !.name = name, !.pre = db]
        /\ UNCHANGED <<chat, alive, last, db, putlog, table, opened, concvars, rendervars, snapvars>>

\* del db[name], db.DelChat(name)
CallDelChat ==
    /\ opened
    /\ \E name \in Names :
        /\ db' = DelChat(db, name)
        /\ dblast' = [NoDbOp EXCEPT !.op = "DelChat", !.name = name, !.pre = db]
        /\ putlog' = DictDel(putlog, name)
        /\ UNCHANGED <<chat, alive, last, got, table, opened, concvars, rendervars, snapvars>>

\* db.PopChat(name), db.pop(name)
CallPopChat ==
    /\ opened
    /\ \E name \in Names :
        LET r == PopChat(db, name)
        IN /\ got' = r.chat
           /\ db' = r.db
           /\ dblast' = [NoDbOp EXCEPT !.op = "PopChat", !.name = name, !.pre = db]
           /\ putlog' = DictDel(putlog, name)
           /\ UNCHANGED <<chat, alive, last, table, opened, concvars, rendervars, snapvars>>

\* db |= other, with other a store kept in another file
CallIor ==
    /\ opened
    /\ \E other \in SampleStores :
        LET r == Ior(db, other)
        IN /\ db' = r.self
           /\ dblast' = [NoDbOp EXCEPT !.op = "Ior", !.pre = db,
                                        !.other = other, !.after = r.other]
           /\ putlog' = [n \in (DOMAIN putlog) \cup (DOMAIN other) |->
                            IF n \in DOMAIN other
                            THEN [chat |-> Items(other)[n],
                                  replaced |-> n \in DOMAIN db,
                                  old |-> GetChat(db, n)]
                            ELSE putlog[n]]
           /\ UNCHANGED <<chat, alive, last, got, table, opened, concvars, rendervars, snapvars>>

\* db = ChatDatabase(db_filename)
CallOpen ==
    /\ ~opened
    /\ LET r == ChatDatabaseInit(table, db)
       IN /\ table' = r.table
          /\ db' = r.db
          /\ opened' = (r.exc = "none")
          /\ dblast' = [NoDbOp EXCEPT !.op = "Open", !.ret = table, !.pre = db,
                                       !.exc = r.exc]
          /\ UNCHANGED <<chat, alive, last, got, putlog, concvars, rendervars, snapvars>>

\* del db, leaving the with block: __del__ closes the connection
CallClose ==
    /\ opened
    /\ opened' = FALSE
    /\ UNCHANGED <<chat, alive, last, db, got, dblast, putlog, table, concvars, rendervars, snapvars>>

StoreNext ==
    \/ CallOpen
    \/ CallClose
    \/ CallAddChat
    \/ CallGetChat
    \/ CallDelChat
    \/ CallPopChat
    \/ CallIor

StoreSpec == Init /\ [][StoreNext]_vars

\* ---------------------------------------------------------- rendering
\* A text is a sequence of characters. The characters that the two regular
\* expressions tell apart are the backtick, the newline and the space; a
\* word such as "before" or "print(1)" stands for a run of characters that
\* are none of these and is kept as one element. An output text holds the
\* same characters and, as further elements, the escape sequences written
\* by the palette and by the highlighter.
\* the backtick character
BT == "bt"
WS == {" ", "\n"}
Fence == <<BT, BT, BT>>

\* colors.py
black_background_colors ==
    [ROLE_HEADER |-> <<"square">>, ROLE_HEADER_COLOR |-> <<"ESC[93m">>,
     ENDC |-> <<"ESC[0m">>,
     USER_ROLE |-> <<"ESC[94m">>, USER_CONTENT |-> <<"ESC[3m", "ESC[47m">>,
     ASSISTANT_ROLE |-> <<"ESC[93m">>, ASSISTANT_CONTENT |-> <<>>,
     SYSTEM_ROLE |-> <<"ESC[91m">>, SYSTEM_CONTENT |-> <<"ESC[1m">>,
     CODE_BEGIN |-> <<"ESC[34m">>,
     CODE_START_TXT |-> Fence, CODE_END_TXT |-> Fence,
     CODE_SEP_STARTER |-> <<"ESC[01;32m">>, CODE_SEP_ENDER |-> <<"ESC[01;32m">>,
     CODE_SEP_LANG |-> <<"ESC[0;31m", "ESC[4m">>,
     KEYWORD_BEGIN |-> <<"ESC[96m">>]

nocolors ==
    [ROLE_HEADER |-> <<"*">>, ROLE_HEADER_COLOR |-> <<>>,
     ENDC |-> <<>>,
     USER_ROLE |-> <<>>, USER_CONTENT |-> <<>>,
     ASSISTANT_ROLE |-> <<>>, ASSISTANT_CONTENT |-> <<>>,
     SYSTEM_ROLE |-> <<>>, SYSTEM_CONTENT |-> <<>>,
     CODE_BEGIN |-> <<>>,
     CODE_START_TXT |-> Fence, CODE_END_TXT |-> Fence,
     CODE_SEP_STARTER |-> <<>>, CODE_SEP_ENDER |-> <<>>,
     CODE_SEP_LANG |-> <<>>,
     KEYWORD_BEGIN |-> <<>>]

default_colors == black_background_colors

\* s[i] and s[a:b], counted from 0 as in Python
At(s, i) == s[i + 1]
Slice(s, a, b) == SubSeq(s, a + 1, b)

SetMin(S) == CHOOSE x \in S : \A y \in S : x <= y
SetMax(S) == CHOOSE x \in S : \A y \in S : x >= y

\* three backticks at offset k
IsFence(s, k) ==
    /\ k + 3 <= Len(s)
    /\ \A i \in k..(k + 2) : At(s, i) = BT

\* \s* over s[a:b]
AllWs(s, a, b) == \A i \in a..(b - 1) : At(s, i) \in WS

\* (?:.|\n)*?(?:^|\n)\s* from offset st up to offset k: the text starts
\* there, or a newline at or after st is followed by whitespace only
OpeningOk(s, st, k) ==
    \/ st = 0 /\ AllWs(s, 0, k)
    \/ \E j \in st..(k - 1) : At(s, j) = "\n" /\ AllWs(s, j + 1, k)

\* mutant: the language tag may run over newlines
LineEnd_Last(s, a) ==
    LET nls == {m \in a..(Len(s) - 1) : At(s, m) = "\n"}
    IN IF nls = {} THEN -1 ELSE SetMax(nls)

\* (?P<lang>.*)\n from offset a: the offset of the newline, -1 without one
LineEnd(s, a) ==
    LET nls == {m \in a..(Len(s) - 1) : At(s, m) = "\n"}
    IN IF nls = {} THEN -1 ELSE SetMin(nls)

\* (?:.|\n)*?\n\s* and three backticks after the newline at m: where a closing fence can be
Closings(s, m) ==
    {e \in (m + 2)..(Len(s) - 3) :
        /\ IsFence(s, e)
        /\ \E j \in (m + 1)..(e - 1) : At(s, j) = "\n" /\ AllWs(s, j + 1, e)}

\* mutant: (?:.|\n)* in the code group, the longest body is taken
ClosingFence_Greedy(s, m) == SetMax(Closings(s, m))

\* the closing fence the lazy code group stops at
ClosingFence(s, m) == SetMin(Closings(s, m))

\* mutant: the before group does not start at the start of the match
Groups_ShortBefore(s, st, k, m, e) ==
    [found |-> TRUE, start |-> st, end |-> e + 3,
     before |-> <<>>,
     lang |-> Slice(s, k + 3, m),
     code |-> Slice(s, m + 1, e)]

\* the re.Match of code_regex: m.start(), m.end() and m.groups()
Groups(s, st, k, m, e) ==
    [found |-> TRUE, start |-> st, end |-> e + 3,
     before |-> Slice(s, st, k),
     lang |-> Slice(s, k + 3, m),
     code |-> Slice(s, m + 1, e)]

NoMatch == [found |-> FALSE]

\* code_regex matched with the match starting at offset st: the lazy before
\* group gives the first opening fence for which the rest can match
MatchAt(s, st) ==
    LET ks == {k \in st..(Len(s) - 3) :
                 /\ IsFence(s, k)
                 /\ OpeningOk(s, st, k)
                 /\ LineEnd(s, k + 3) # -1
                 /\ Closings(s, LineEnd(s, k + 3)) # {}}
    IN IF ks = {}
       THEN NoMatch
       ELSE LET k == SetMin(ks)
                m == LineEnd(s, k + 3)
            IN Groups(s, st, k, m, ClosingFence(s, m))

\* the search of code_regex from offset p: a match is tried at p, then at
\* each later offset, and the first start that matches is taken
RECURSIVE Search(_, _)
Search(s, p) ==
    IF p > Len(s)
    THEN NoMatch
    ELSE LET m == MatchAt(s, p)
         IN IF m.found THEN m ELSE Search(s, p + 1)

\* code_regex.finditer(content) from offset p on
RECURSIVE FindIter(_, _)
FindIter(s, p) ==
    LET m == Search(s, p)
    IN IF ~m.found THEN <<>> ELSE <<m>> \o FindIter(s, m.end)

\* keyword_regex, (.+?) between two backticks, with its first backtick at offset i: the offset of
\* its last backtick, -1 when it does not match there
KeywordEnd(s, i) ==
    IF At(s, i) # BT
    THEN -1
    ELSE LET js == {j \in (i + 2)..(Len(s) - 1) :
                      /\ At(s, j) = BT
                      /\ \A x \in (i + 1)..(j - 1) : At(s, x) # "\n"}
         IN IF js = {} THEN -1 ELSE SetMin(js)

\* mutant: the content style is not started again after the keyword
KeywordSubStr_NoResume(group, colors) ==
    <<BT>> \o colors.ENDC \o colors.KEYWORD_BEGIN \o group \o colors.ENDC \o <<BT>>

\* keyword_sub_str with \1 filled in
KeywordSubStr(group, colors) ==
    <<BT>> \o colors.ENDC \o colors.KEYWORD_BEGIN \o group \o colors.ENDC
            \o colors.ASSISTANT_CONTENT \o <<BT>>

\* keyword_regex.sub(keyword_sub_str, s), from offset i on
RECURSIVE KeywordSub(_, _, _)
KeywordSub(s, i, colors) ==
    IF i >= Len(s)
    THEN <<>>
    ELSE LET j == KeywordEnd(s, i)
         IN IF j = -1
            THEN <<At(s, i)>> \o KeywordSub(s, i + 1, colors)
            ELSE KeywordSubStr(Slice(s, i + 1, j), colors)
                    \o KeywordSub(s, j + 1, colors)

\* languages pygments.lexers.get_lexer_by_name knows, of those used here
KnownLangs == {<<"python">>}

\* pygments.highlight(code, lexer, Terminal256Formatter()): the code between
\* the formatter's own colour and colour-off sequences
Highlight(code) == <<"ESC[38;5;28m">> \o code \o <<"ESC[39m">>

\* GetCodeHighlightedNoLang(code); guessed: guess_lexer found a lexer
GetCodeHighlightedNoLang(code, guessed) ==
    IF guessed THEN default_colors.ENDC \o Highlight(code) ELSE code

\* GetCodeHighlighted(lang, code)
GetCodeHighlighted(lang, code, guessed) ==
    IF lang \in KnownLangs
    THEN default_colors.ENDC \o Highlight(code)
    ELSE GetCodeHighlightedNoLang(code, guessed)

\* mutant: the style of the fence is not ended before the language tag
CodeHeader_Unclosed(lang, colors) ==
    IF lang # <<>>
    THEN colors.CODE_SEP_STARTER \o colors.CODE_START_TXT \o <<"(">>
            \o colors.CODE_SEP_LANG \o lang \o colors.ENDC
            \o colors.CODE_SEP_STARTER \o <<")">> \o colors.ENDC \o <<"\n">>
    ELSE colors.CODE_SEP_STARTER \o colors.CODE_START_TXT \o colors.ENDC \o <<"\n">>

\* GetContentStrTerm, lines 374-380: the line that opens a code section
CodeHeader(lang, colors) ==
    IF lang # <<>>
    THEN colors.CODE_SEP_STARTER \o colors.CODE_START_TXT \o <<"(">> \o colors.ENDC
            \o colors.CODE_SEP_LANG \o lang \o colors.ENDC
            \o colors.CODE_SEP_STARTER \o <<")">> \o colors.ENDC \o <<"\n">>
    ELSE colors.CODE_SEP_STARTER \o colors.CODE_START_TXT \o colors.ENDC \o <<"\n">>

\* GetContentStrTerm, lines 360-386: what one pass of the for loop writes
SectionOut(m, colors, guessed) ==
    colors.ASSISTANT_CONTENT \o KeywordSub(m.before, 0, colors) \o colors.ENDC
        \o CodeHeader(m.lang, colors)
        \o colors.CODE_BEGIN \o GetCodeHighlighted(m.lang, m.code, guessed)
        \o colors.ENDC
        \o colors.CODE_SEP_ENDER \o colors.CODE_END_TXT \o colors.ENDC \o <<"\n">>

RECURSIVE SectionsOut(_, _, _)
SectionsOut(ms, colors, guessed) ==
    IF ms = <<>>
    THEN <<>>
    ELSE SectionOut(Head(ms), colors, guessed) \o SectionsOut(Tail(ms), colors, guessed)

\* the role marker that starts every message
RoleHeader(colors) ==
    colors.ROLE_HEADER_COLOR \o colors.ROLE_HEADER \o colors.ENDC \o <<" ">>

\* GetContentStrTerm(role, content, colors): the text returned, with the
\* matches the loop went through and the tail content[last_end:]
GetContentStrTerm(role, content, colors, guessed) ==
    LET ms == IF role = "assistant" THEN FindIter(content, 0) ELSE <<>>
        last_end == IF ms = <<>> THEN 0 ELSE ms[Len(ms)].end
        tail == Slice(content, last_end, Len(content))
    IN [matches |-> ms,
        tail |-> tail,
        out |->
          RoleHeader(colors) \o
          CASE role = "user" ->
                 colors.USER_ROLE \o <<role>> \o colors.ENDC \o <<"\n">>
                    \o colors.USER_CONTENT \o content \o colors.ENDC \o <<"\n">>
            [] role = "system" ->
                 colors.SYSTEM_ROLE \o <<role>> \o colors.ENDC \o <<"\n">>
                    \o colors.SYSTEM_CONTENT \o content \o colors.ENDC \o <<"\n">>
            [] role = "assistant" ->
                 colors.ASSISTANT_ROLE \o <<role>> \o colors.ENDC \o <<"\n">>
                    \o SectionsOut(ms, colors, guessed)
                    \o colors.ASSISTANT_CONTENT \o KeywordSub(tail, 0, colors)
                    \o colors.ENDC \o <<"\n">>
            [] OTHER -> <<>>]

\* str.strip() on a text
RECURSIVE StripText(_)
StripText(s) ==
    IF s = <<>> THEN s
    ELSE IF Head(s) \in WS THEN StripText(Tail(s))
    ELSE IF s[Len(s)] \in WS THEN StripText(SubSeq(s, 1, Len(s) - 1))
    ELSE s

\* the loop of StrTerm over messages
RECURSIVE StrTermLoop(_, _, _)
StrTermLoop(messages, colors, guessed) ==
    IF messages = <<>>
    THEN <<>>
    ELSE GetContentStrTerm(Head(messages).role, StripText(Head(messages).content),
                           colors, guessed).out
            \o StrTermLoop(Tail(messages), colors, guessed)

\* StrTerm(colors)
StrTerm(messages, colors, guessed) ==
    IF messages = <<>>
    THEN <<"<empty conversation>">>
    ELSE StrTermLoop(messages, colors, guessed)

\* a palette of the caller's own: every entry is visible and distinct
marked_colors ==
    [ROLE_HEADER |-> <<"+">>, ROLE_HEADER_COLOR |-> <<"ESC[hdr]">>,
     ENDC |-> <<"ESC[0m">>,
     USER_ROLE |-> <<"ESC[ur]">>, USER_CONTENT |-> <<"ESC[uc]">>,
     ASSISTANT_ROLE |-> <<"ESC[ar]">>, ASSISTANT_CONTENT |-> <<"ESC[ac]">>,
     SYSTEM_ROLE |-> <<"ESC[sr]">>, SYSTEM_CONTENT |-> <<"ESC[sc]">>,
     CODE_BEGIN |-> <<"ESC[cb]">>,
     CODE_START_TXT |-> Fence, CODE_END_TXT |-> Fence,
     CODE_SEP_STARTER |-> <<"ESC[cs]">>, CODE_SEP_ENDER |-> <<"ESC[ce]">>,
     CODE_SEP_LANG |-> <<"ESC[cl]">>,
     KEYWORD_BEGIN |-> <<"ESC[kw]">>]

PaletteNames == {"black_background_colors", "nocolors", "marked_colors"}
Palette(p) ==
    CASE p = "black_background_colors" -> black_background_colors
      [] p = "nocolors" -> nocolors
      [] p = "marked_colors" -> marked_colors

\* all sequences of at most n elements of S
RECURSIVE SeqsUpTo(_, _)
SeqsUpTo(S, n) ==
    IF n = 0
    THEN {<<>>}
    ELSE LET shorter == SeqsUpTo(S, n - 1)
         IN shorter \cup {<<x>> \o t : x \in S, t \in {u \in shorter : Len(u) = n - 1}}

RECURSIVE Concat(_)
Concat(ts) == IF ts = <<>> THEN <<>> ELSE Head(ts) \o Concat(Tail(ts))

\* contents put together from the pieces the regular expressions look at
Pieces == {Fence, <<"\n">>, <<"x">>, <<BT>>, <<" ">>}
PieceTexts == {Concat(ts) : ts \in SeqsUpTo(Pieces, MaxPieces)}

\* the contents of section 4.2 and of the examples
MidLineText ==
    <<"before", " ">> \o Fence \o <<"python", "\n", "print(1)", "\n">>
        \o Fence \o <<" ", "after">>
LineStartText ==
    <<"before", "\n">> \o Fence \o <<"python", "\n", "print(1)", "\n">>
        \o Fence \o <<" ", "after">>
KeywordText == <<"use", " ", BT, "x", BT, " ", "now">>
PaddedText == <<" ", "\n", "hello", " ", "\n">>
SampleTexts == {MidLineText, LineStartText, KeywordText, PaddedText, <<"hello">>}

\* contents written as plain spans and fenced sections: plain[i] comes
\* before section i, plain[Len(secs) + 1] after the last one
DocSections ==
    [lang : {<<>>, <<"python">>},
     code : {<<>>, <<"x", "\n">>, <<"x", "\n", " ", "y", "\n">>}]

DocsOf(n) ==
    LET opening == {<<>>, <<"intro", "\n">>}
        middle == {<<"\n">>, <<" ", "mid", "\n">>}
        closing == {<<>>, <<" ", "after">>}
    IN {[secs |-> secs, plain |-> plain] :
          secs \in [1..n -> DocSections],
          plain \in {p \in [1..(n + 1) -> opening \cup middle \cup closing] :
                       /\ p[1] \in opening
                       /\ p[n + 1] \in closing
                       /\ \A i \in 2..n : p[i] \in middle}}

Docs == UNION {DocsOf(n) : n \in 2..MaxSections}

RECURSIVE DocTextFrom(_, _)
DocTextFrom(d, i) ==
    IF i > Len(d.secs)
    THEN d.plain[i]
    ELSE d.plain[i] \o Fence \o d.secs[i].lang \o <<"\n">> \o d.secs[i].code
            \o Fence \o DocTextFrom(d, i + 1)

DocText(d) == DocTextFrom(d, 1)

\* a content that is not written that way: one plain span, no section, no
\* inline part
Unwritten(t) ==
    [content |-> t, doc |-> [secs |-> <<>>, plain |-> <<t>>], parts |-> <<>>]

\* contents written as plain parts and inline tokens between backticks
InlineParts == {[kw |-> FALSE, text |-> <<"use", " ">>],
                [kw |-> FALSE, text |-> <<" ", "now">>],
                [kw |-> TRUE, text |-> <<"x">>],
                [kw |-> TRUE, text |-> <<"a", " ", "b">>]}
InlineDocs == SeqsUpTo(InlineParts, MaxParts) \ {<<>>}

RECURSIVE InlineText(_)
InlineText(parts) ==
    IF parts = <<>>
    THEN <<>>
    ELSE (IF Head(parts).kw THEN <<BT>> \o Head(parts).text \o <<BT>>
                            ELSE Head(parts).text)
            \o InlineText(Tail(parts))


\* the assistant contents, each with the way it was written
AssistantTexts ==
    {Unwritten(t) : t \in PieceTexts \cup SampleTexts}
    \cup {[content |-> DocText(d), doc |-> d, parts |-> <<>>] : d \in Docs}
    \cup {[Unwritten(InlineText(parts)) EXCEPT !.parts = parts] : parts \in InlineDocs}

\* the messages of the conversations that are rendered whole
RenderMessages ==
    {[role |-> "user", content |-> <<"hello">>],
     [role |-> "system", content |-> PaddedText],
     [role |-> "assistant", content |-> KeywordText],
     [role |-> "assistant", content |-> LineStartText \o <<"\n">>]}
RenderConversations == SeqsUpTo(RenderMessages, MaxRenderMsgs)

\* a call that is about to be made: its receiver and arguments, and for
\* an assistant content the way it was written
RenderCall(role, text, messages, p, guessed) ==
    [op |-> "None", role |-> role, content |-> text.content, messages |-> messages,
     palette |-> p, guessed |-> guessed,
     doc |-> text.doc, parts |-> text.parts,
     matches |-> <<>>, tail |-> <<>>, out |-> <<>>]

RenderCalls ==
    {RenderCall("assistant", text, <<>>, p, guessed) :
        text \in AssistantTexts, p \in PaletteNames, guessed \in BOOLEAN}
    \cup {RenderCall(role, Unwritten(t), <<>>, p, guessed) :
        role \in Roles \ {"assistant"}, t \in SampleTexts,
        p \in PaletteNames, guessed \in BOOLEAN}
    \cup {RenderCall("None", Unwritten(<<>>), messages, p, guessed) :
        messages \in RenderConversations, p \in PaletteNames, guessed \in BOOLEAN}

RenderInit ==
    /\ chat = NoChat
    /\ alive = FALSE
    /\ last = NoOp
    /\ db = EmptyDict
    /\ got = NoChat
    /\ dblast = NoDbOp
    /\ putlog = EmptyDict
    /\ table = FALSE
    /\ opened = FALSE
    /\ conn = [h \in Handles |-> IdleConn]
    /\ lock = 0
    /\ pending = EmptyDict
    /\ hist = NoHist
    /\ render \in RenderCalls
    /\ objs = <<>>
    /\ rows = EmptyDict
    /\ refs = <<>>
    /\ snap = NoSnap

\* c.GetContentStrTerm(role, content, colors)
CallGetContentStrTerm ==
    /\ render.op = "None"
    /\ render.role \in Roles
    /\ LET r == GetContentStrTerm(render.role, render.content,
                                  Palette(render.palette), render.guessed)
       IN render' = [render EXCEPT !.op = "GetContentStrTerm",
                                   !.matches = r.matches,
                                   !.tail = r.tail,
                                   !.out = r.out]
    /\ UNCHANGED <<chat, alive, last, storevars, concvars, snapvars>>

\* c.StrTerm(colors)
CallStrTerm ==
    /\ render.op = "None"
    /\ render.role = "None"
    /\ render' = [render EXCEPT !.op = "StrTerm",
                                !.out = StrTerm(render.messages,
                                                Palette(render.palette),
                                                render.guessed)]
    /\ UNCHANGED <<chat, alive, last, storevars, concvars, snapvars>>

RenderNext == CallGetContentStrTerm \/ CallStrTerm

RenderSpec == RenderInit /\ [][RenderNext]_vars

\* ------------------------------------------------------ command line
\* src/py/cmdchatgpt.py runs on the Chat and ChatDatabase of
\* src/py/openai_util.py. Their __init__, Add, GetChat and JSONDump read as
\* in src/cmdchatgpt, and ChatInit, Add, GetChat and JSONDump above stand
\* for them; _Send0, Send and AddChat differ and are modelled here.

\* response['choices'][0]['message'] of openai.ChatCompletion.create
CliResponseMessage(remote) == [role |-> "assistant", content |-> remote.content]

\* Chat._Send0(**kw): no try, the error of the client leaves the method
CliSend0(c, kw, remote) ==
    IF ~remote.ok
    THEN [chat |-> c, exc |-> "RemoteError", calls |-> 1]
    ELSE [chat |-> [c EXCEPT !.prompts_and_responses =
                       Append(@, [kind |-> "list", prompt |-> NewPrompt(c, kw),
                                  response |-> [choices |->
                                     <<[message |-> CliResponseMessage(remote)]>>]])],
          exc |-> "none", calls |-> 1]

\* Chat.Send(**kw)
CliSend(c, kw, remote) ==
    LET r == CliSend0(c, kw, remote)
    IN IF r.exc # "none"
       THEN r
       ELSE [r EXCEPT !.chat = [r.chat EXCEPT !.messages =
                                   Append(@, CliResponseMessage(remote))]]

\* ChatDatabase.AddChat(name, chat): returns None for an empty conversation
CliAddChat(d, name, c) ==
    IF c.messages = <<>> /\ c.prompts_and_responses = <<>>
    THEN [db |-> d, ret |-> "None"]
    ELSE [db |-> DictSet(d, name, JSONDump(c)), ret |-> "True"]

\* what the command line can be given: the content words and the role
ArgvContents == {<<>>, <<"">>, <<"q">>}
StdinTexts == {"", " ", "q"}

\* str.strip() on the texts above
Strip(text) == IF text = " " THEN "" ELSE text

\* " ".join(args.content), for the one-word lists above
Join(words) == words[1]

\* Go, lines 101-110: the content taken from the arguments or from stdin
ResolveContent(argv, stdin) == IF argv # <<>> THEN Join(argv) ELSE Strip(stdin)

\* mutant: empty content is sent like any other
GoReturnsEarly_Never(content) == FALSE

\* Go, lines 116-117: if not content: return
GoReturnsEarly(content) == ~Truthy(content)

\* mutant: the conversation is stored whether or not Send raised
GoStore_Always(d, name, r) == CliAddChat(d, name, r.chat).db

\* Go, line 136: db[args.chat] = chat, reached only when Send has returned
GoStore(d, name, r) ==
    IF r.exc = "none" THEN CliAddChat(d, name, r.chat).db ELSE d

\* one run of Go on the file (hasTable, d): the table afterwards, the
\* conversation the process ends with, and what happened on the way
GoRun(hasTable, d, name, role, argv, stdin, remote) ==
    LET d0 == ChatDatabaseInit(hasTable, d).db
        c0 == GetChat(d0, name)
        content == ResolveContent(argv, stdin)
        r == CliSend(Add(c0, role, content), EmptyDict, remote)
    IN IF GoReturnsEarly(content)
       THEN [db |-> d0, chat |-> c0, loaded |-> c0, content |-> content,
             exc |-> "none", calls |-> 0, put |-> FALSE]
       ELSE [db |-> GoStore(d0, name, r), chat |-> r.chat, loaded |-> c0,
             content |-> content, exc |-> r.exc, calls |-> r.calls,
             put |-> GoStore(d0, name, r) # d0]

\* cmdchatgpt [-c name] [-r role] [content]
Go ==
    /\ \E name \in Names, role \in Roles, argv \in ArgvContents,
          stdin \in StdinTexts, remote \in RemoteOutcomes :
         LET g == GoRun(table, db, name, role, argv, stdin, remote)
         IN /\ (g.calls > 0 /\ remote.ok) =>
                  Len(g.loaded.messages) + 2 <= MaxCliMsgs
            /\ g.calls = 0 => ~remote.ok
            /\ argv # <<>> => stdin = ""
            /\ db' = g.db
            /\ table' = TRUE
            /\ chat' = g.chat
            /\ last' = [NoOp EXCEPT !.op = "Go", !.role = role,
                                    !.content = g.content,
                                    !.remote = IF g.calls = 0 THEN "none"
                                               ELSE RemoteTag(remote),
                                    !.exc = g.exc, !.calls = g.calls,
                                    !.pre = g.loaded]
            /\ dblast' = [NoDbOp EXCEPT !.op = "Go", !.name = name,
                                        !.ret = g.put, !.pre = db, !.exc = g.exc]
    /\ UNCHANGED <<alive, got, putlog, opened, concvars, rendervars, snapvars>>

CliSpec == Init /\ [][Go]_vars

\* ------------------------------------------------- handles side by side
\* Two handles on one file. Each connection is used by one caller, so the
\* calls of a handle follow one another; the statements of different handles
\* interleave. A statement that writes takes the file's write lock and its
\* effect stays in the connection's transaction (pending) until commit()
\* publishes it; a SELECT of another connection reads the committed table.
\* A writing statement that finds the lock held waits for it and, when the
\* wait runs out, raises OperationalError (database is locked).
ConcInit ==
    /\ chat = NoChat
    /\ alive = FALSE
    /\ last = NoOp
    /\ db = EmptyDict
    /\ got = NoChat
    /\ dblast = NoDbOp
    /\ putlog = EmptyDict
    /\ table = TRUE
    /\ opened = TRUE
    /\ conn = [h \in Handles |-> IdleConn]
    /\ lock = 0
    /\ pending = EmptyDict
    /\ hist = NoHist
    /\ render = NoRender
    /\ objs = <<>>
    /\ rows = EmptyDict
    /\ refs = <<>>
    /\ snap = NoSnap

ConcFrame == UNCHANGED <<chat, alive, last, got, dblast, putlog, table, opened,
                         rendervars, snapvars>>

\* the call of handle h ends by raising OperationalError
Locked(h, op, name) ==
    /\ conn' = [conn EXCEPT ![h] = [IdleConn EXCEPT !.op = op, !.name = name,
                                                    !.exc = "OperationalError"]]
    /\ UNCHANGED <<db, lock, pending, hist>>

\* cur.execute("DELETE FROM ... WHERE name = ?") on handle h
ExecDelete(h, op, name, c) ==
    IF lock # 0
    THEN Locked(h, op, name)
    ELSE /\ lock' = h
         /\ pending' = DelChat(db, name)
         /\ conn' = [conn EXCEPT ![h] =
                        [IdleConn EXCEPT !.pc = "commit", !.op = op, !.name = name,
                                         !.got = c,
                                         !.deleted = IF name \in DOMAIN db
                                                     THEN <<db[name]>> ELSE <<>>]]
         /\ UNCHANGED <<db, hist>>

\* h.AddChat(name, c) up to and including the INSERT OR REPLACE
ConcAddChat ==
    /\ \E h \in Handles, name \in ConcNames, c \in ConcChats :
         /\ conn[h].pc = "idle"
         /\ LET r == AddChat(db, name, c)
            IN IF ~r.ret
               THEN /\ conn' = [conn EXCEPT ![h] =
                                  [IdleConn EXCEPT !.op = "AddChat", !.name = name,
                                                   !.arg = c]]
                    /\ UNCHANGED <<db, lock, pending, hist>>
               ELSE IF lock # 0
               THEN Locked(h, "AddChat", name)
               ELSE /\ lock' = h
                    /\ pending' = r.db
                    /\ conn' = [conn EXCEPT ![h] =
                                  [IdleConn EXCEPT !.pc = "commit", !.op = "AddChat",
                                                   !.name = name, !.arg = c]]
                    /\ UNCHANGED <<db, hist>>
    /\ ConcFrame

\* h.DelChat(name) up to and including the DELETE
ConcDelChat ==
    /\ \E h \in Handles, name \in ConcNames :
         /\ conn[h].pc = "idle"
         /\ ExecDelete(h, "DelChat", name, NoChat)
    /\ ConcFrame

\* h.GetChat(name): one SELECT with fetchall
ConcGetChat ==
    /\ \E h \in Handles, name \in ConcNames :
         /\ conn[h].pc = "idle"
         /\ conn' = [conn EXCEPT ![h] =
                        [IdleConn EXCEPT !.op = "GetChat", !.name = name,
                                         !.got = GetChat(db, name)]]
    /\ UNCHANGED <<db, lock, pending, hist>>
    /\ ConcFrame

\* h.PopChat(name), first statement: c = self.GetChat(name)
ConcPopGet ==
    /\ \E h \in Handles, name \in ConcNames :
         /\ conn[h].pc = "idle"
         /\ conn' = [conn EXCEPT ![h] =
                        [IdleConn EXCEPT !.pc = "popdel", !.op = "PopChat",
                                         !.name = name, !.got = GetChat(db, name)]]
    /\ UNCHANGED <<db, lock, pending, hist>>
    /\ ConcFrame

\* h.PopChat(name), second statement: self.DelChat(name), up to the DELETE
ConcPopDel ==
    /\ \E h \in Handles :
         /\ conn[h].pc = "popdel"
         /\ ExecDelete(h, "PopChat", conn[h].name, conn[h].got)
    /\ ConcFrame

\* self.con.commit() of AddChat and of DelChat; the call returns
ConcCommit ==
    /\ \E h \in Handles :
         /\ conn[h].pc = "commit"
         /\ db' = pending
         /\ lock' = 0
         /\ pending' = EmptyDict
         /\ conn' = [conn EXCEPT ![h].pc = "idle"]
         /\ hist' = IF conn[h].op = "AddChat"
                    THEN [puts |-> hist.puts \cup {conn[h].arg},
                          last |-> [kind |-> "put", chat |-> conn[h].arg]]
                    ELSE [hist EXCEPT !.last = [kind |-> "del", chat |-> NoChat]]
    /\ ConcFrame

ConcNext ==
    \/ ConcAddChat
    \/ ConcDelChat
    \/ ConcGetChat
    \/ ConcPopGet
    \/ ConcPopDel
    \/ ConcCommit

ConcSpec == ConcInit /\ [][ConcNext]_vars

\* --------------------------------------------- objects around a store
\* Conversations are objects: objs[id] is the state of object id, and a
\* caller holds an object by a reference, refs[h]: the object it built
\* itself (kind "new") or the one a GetChat(name) returned (kind "get").
\* A row holds the text that was bound to its json column and the object
\* that text was dumped from; a live row would be that object itself.

\* mutant: the row keeps the conversation object, not its dump
BindRow_Live(id, text) == [live |-> TRUE, from |-> id, text |-> text]

\* the json parameter of the INSERT: chat.JSONDump(), a str
BindRow(id, text) == [live |-> FALSE, from |-> id, text |-> text]

\* the json column of a row as a SELECT reads it
RowText(os, row) == IF row.live THEN JSONDump(os[row.from]) ELSE row.text

\* the table as the statements of ChatDatabase see it
TableOf(os, rs) == [name \in DOMAIN rs |-> RowText(os, rs[name])]

\* mutant: an object equal to the one asked for is handed out again
NewObject_Interned(os, c) ==
    IF \E i \in 1..Len(os) : os[i] = c
    THEN [objs |-> os, id |-> CHOOSE i \in 1..Len(os) : os[i] = c]
    ELSE [objs |-> Append(os, c), id |-> Len(os) + 1]

\* Chat(...): every call of the constructor makes an object of its own
NewObject(os, c) == [objs |-> Append(os, c), id |-> Len(os) + 1]

SnapChats == {ChatUnsent, ChatOnce}
SnapNames == {"default"}
MutateOps == {"AddMessage", "pop", "Send", "ChatTurn"}

\* c = ChatOpenAI(...) in the caller's hands
SnapNew ==
    /\ Len(objs) < MaxObjs
    /\ \E c \in SnapChats :
         LET o == NewObject(objs, c)
         IN /\ objs' = o.objs
            /\ refs' = Append(refs, [kind |-> "new", name |-> "None", id |-> o.id])
            /\ snap' = [snap EXCEPT !.op = "New", !.h = Len(refs) + 1]
    /\ UNCHANGED <<chat, alive, last, storevars, concvars, rendervars, rows>>

\* db.AddChat(name, c) with c the object of reference h
SnapPut ==
    /\ \E h \in 1..Len(refs), name \in SnapNames :
         LET r == AddChat(TableOf(objs, rows), name, objs[refs[h].id])
         IN /\ rows' = IF r.ret
                       THEN DictSet(rows, name, BindRow(refs[h].id, r.db[name]))
                       ELSE rows
            /\ snap' = [snap EXCEPT !.op = "Put", !.h = h]
    /\ UNCHANGED <<chat, alive, last, storevars, concvars, rendervars, objs, refs>>

\* db.GetChat(name)
SnapGet ==
    /\ Len(objs) < MaxObjs
    /\ \E name \in SnapNames :
         LET o == NewObject(objs, GetChat(TableOf(objs, rows), name))
         IN /\ objs' = o.objs
            /\ refs' = Append(refs, [kind |-> "get", name |-> name, id |-> o.id])
            /\ snap' = [snap EXCEPT !.op = "Get", !.h = Len(refs) + 1]
    /\ UNCHANGED <<chat, alive, last, storevars, concvars, rendervars, rows>>

\* what AddMessage, pop, Send and ChatTurn can make of a conversation
Mutations(c) ==
    {[op |-> "AddMessage", chat |-> Add(c, "user", "q")],
     [op |-> "pop", chat |-> pop(c, -1).chat]}
    \cup {[op |-> "Send", chat |-> Send(c, flag, EmptyDict, remote).chat] :
            flag \in BOOLEAN, remote \in RemoteOutcomes}
    \cup {[op |-> "ChatTurn", chat |-> ChatTurn(c, "user", "q", EmptyDict, remote).chat] :
            remote \in RemoteOutcomes}

\* a call on the object of reference h that changes it
SnapMutate ==
    /\ snap.n < MaxMutations
    /\ \E h \in 1..Len(refs) :
         \E m \in Mutations(objs[refs[h].id]) :
            /\ m.chat # objs[refs[h].id]
            /\ objs' = [objs EXCEPT ![refs[h].id] = m.chat]
            /\ snap' = [op |-> m.op, h |-> h, n |-> snap.n + 1]
    /\ UNCHANGED <<chat, alive, last, storevars, concvars, rendervars, rows, refs>>

SnapNext == SnapNew \/ SnapPut \/ SnapGet \/ SnapMutate

\* the file is new, or holds what an earlier run of the program has put
\* there (no object of this run)
SnapStores ==
    {EmptyDict,
     [name \in DOMAIN StoreOne |->
        [live |-> FALSE, from |-> 0, text |-> StoreOne[name]]]}

SnapInit ==
    /\ chat = NoChat
    /\ alive = FALSE
    /\ last = NoOp
    /\ db = EmptyDict
    /\ got = NoChat
    /\ dblast = NoDbOp
    /\ putlog = EmptyDict
    /\ table = TRUE
    /\ opened = TRUE
    /\ conn = [h \in Handles |-> IdleConn]
    /\ lock = 0
    /\ pending = EmptyDict
    /\ hist = NoHist
    /\ render = NoRender
    /\ objs = <<>>
    /\ rows \in SnapStores
    /\ refs = <<>>
    /\ snap = NoSnap

SnapSpec == SnapInit /\ [][SnapNext]_vars

\* ------------------------------------------------------------ properties
LogOf(c) == ChatView(c).prompts_and_responses

SendFailed == last.op = "Send" /\ last.remote = "fail"

SendSucceeded == last.op = "Send" /\ last.remote = "ok"

ChatTurnOps == {"UserChat", "SystemChat", "AssistantChat"}

Mutators == {"User", "System", "Assistant", "pop", "Send"} \cup ChatTurnOps

\* C1 as stated: after a failed Send, for either value of the rollback flag,
\* messages and exchange_log are exactly what they were before the call.
C1_SendFailureLeavesAll ==
    SendFailed => /\ chat.messages = last.pre.messages
                  /\ LogOf(chat) = LogOf(last.pre)

\* C1 amended: after a failed Send the exchange_log is exactly what it was;
\* messages is exactly what it was when the rollback flag is off, and is the
\* pre-call sequence without its last element (nothing removed when it was
\* empty) when the rollback flag is on.
C1_SendFailure ==
    SendFailed =>
        /\ LogOf(chat) = LogOf(last.pre)
        /\ chat.messages =
              IF last.flag /\ last.pre.messages # <<>>
              THEN SubSeq(last.pre.messages, 1, Len(last.pre.messages) - 1)
              ELSE last.pre.messages

C1_Witness ==
    /\ SendFailed /\ last.flag
    /\ Len(last.pre.messages) = 1
    /\ chat.messages = <<>>

C3_SendSuccess ==
    SendSucceeded =>
        LET n == Len(chat.prompts_and_responses)
            e == LogOf(chat)[n]
            m == e.response.choices[1].message
        IN /\ n = Len(last.pre.prompts_and_responses) + 1
           /\ SubSeq(LogOf(chat), 1, n - 1) = LogOf(last.pre)
           /\ e.prompt["messages"] = last.pre.messages
           /\ chat.messages =
                Append(last.pre.messages, [role |-> m.role, content |-> m.content])
           /\ m.role = "assistant"

C3_Witness ==
    /\ SendSucceeded
    /\ last.kw # EmptyDict
    /\ last.pre.messages # <<>>

C5_RemoteErrorReachesCaller ==
    last.remote = "fail" => last.exc = "RemoteError"

\* the messages handed to Send by the last call
AtSend ==
    IF last.op = "Send"
    THEN last.pre.messages
    ELSE Append(last.pre.messages, [role |-> last.role, content |-> last.content])

GainedLogEntry ==
    Len(chat.prompts_and_responses) = Len(last.pre.prompts_and_responses) + 1

GainedReply ==
    /\ Len(chat.messages) = Len(AtSend) + 1
    /\ SubSeq(chat.messages, 1, Len(AtSend)) = AtSend
    /\ chat.messages[Len(chat.messages)].role = "assistant"

\* C6: Send is all-or-nothing however it ends: after it has returned or
\* raised, exchange_log has gained an entry for that send exactly when
\* messages has gained the assistant reply.
C6_SendAllOrNothing ==
    (last.op \in {"Send"} \cup ChatTurnOps /\ last.calls = 1) =>
        /\ GainedLogEntry <=> GainedReply
        /\ ~GainedLogEntry => LogOf(chat) = LogOf(last.pre)

C6_Witness ==
    /\ SendSucceeded
    /\ last.flag
    /\ GainedLogEntry /\ GainedReply

\* C7: for every reachable conversation c, Deserialize(Serialize(c)) has the
\* same options map, the same exchange_log and the same messages as c, and
\* deserializing performs no send.
C7_RoundTrip ==
    last.op = "Reload" =>
        /\ chat.args = last.pre.args
        /\ LogOf(chat) = LogOf(last.pre)
        /\ ChatEq(chat, last.pre)
        /\ last.calls = 0
        /\ ~Deserialize(JSONDump(last.pre)).send

C7_Witness ==
    /\ last.op = "Reload"
    /\ Len(chat.prompts_and_responses) >= 1
    /\ chat.messages # <<>>
    /\ "temperature" \in DOMAIN chat.args

C9_PutThenGet ==
    (dblast.op = "GetChat" /\ dblast.name \in DOMAIN putlog) =>
        ChatEq(got, putlog[dblast.name].chat)

C9_Witness ==
    /\ dblast.op = "GetChat"
    /\ dblast.name \in DOMAIN putlog
    /\ Len(got.messages) >= 2

\* C10 as stated: a second Put under a name that holds an entry replaces it,
\* so a following Get returns the second conversation only, and the number of
\* names does not grow.
C10_SecondPutAlwaysReplaces ==
    (dblast.op = "AddChat" /\ dblast.name \in DOMAIN dblast.pre) =>
        /\ ChatView(GetChat(db, dblast.name)) = ChatView(dblast.arg)
        /\ Cardinality(DOMAIN db) <= Cardinality(DOMAIN dblast.pre)

\* C10 amended: a second Put of a non-empty conversation under a name that
\* holds an entry replaces that entry wholesale: a following Get returns the
\* options, messages and exchange_log of the second conversation only, and
\* the set of names is unchanged by the Put.
C10_SecondPutReplaces ==
    /\ (dblast.op = "AddChat" /\ dblast.ret /\ dblast.name \in DOMAIN dblast.pre) =>
          /\ DOMAIN db = DOMAIN dblast.pre
          /\ \A n \in DOMAIN db \ {dblast.name} : db[n] = dblast.pre[n]
    /\ (dblast.op = "GetChat" /\ dblast.name \in DOMAIN putlog
          /\ putlog[dblast.name].replaced) =>
          ChatView(got) = ChatView(putlog[dblast.name].chat)

C10_Witness ==
    /\ dblast.op = "GetChat"
    /\ dblast.name \in DOMAIN putlog
    /\ putlog[dblast.name].replaced
    /\ Len(putlog[dblast.name].old.prompts_and_responses) = 2
    /\ Len(got.prompts_and_responses) = 1
    /\ Len(got.messages) < Len(putlog[dblast.name].old.messages)

\* C11: a Get (or subscript read) of a name with no stored entry returns a
\* fresh empty conversation, with no messages, no exchange_log entries and
\* the default options; it raises nothing, leaves the store as it was and
\* creates no entry for that name.
C11_GetAbsent ==
    (dblast.op = "GetChat" /\ dblast.name \notin DOMAIN dblast.pre) =>
        /\ got.messages = <<>>
        /\ got.prompts_and_responses = <<>>
        /\ got.args = DEFAULT_ARGS
        /\ dblast.exc = "none"
        /\ db = dblast.pre
        /\ dblast.name \notin DOMAIN db

C11_Witness ==
    /\ dblast.op = "GetChat"
    /\ dblast.name \notin DOMAIN dblast.pre
    /\ DOMAIN db # {}
    /\ got = NoChat

\* C12: Delete(name) removes the entry of that name when there is one and
\* leaves every other entry as it was; Delete of a name with no entry raises
\* nothing and leaves the whole store as it was.
C12_Delete ==
    dblast.op = "DelChat" =>
        /\ dblast.exc = "none"
        /\ DOMAIN db = (DOMAIN dblast.pre) \ {dblast.name}
        /\ \A n \in DOMAIN db : db[n] = dblast.pre[n]
        /\ dblast.name \notin DOMAIN dblast.pre => db = dblast.pre

C12_Witness ==
    /\ dblast.op = "DelChat"
    /\ dblast.name \in DOMAIN dblast.pre
    /\ DOMAIN db # {}
    /\ DOMAIN db # DOMAIN dblast.pre

\* a PopChat of handle h has returned
Popped(h) == conn[h].op = "PopChat" /\ conn[h].pc = "idle" /\ conn[h].exc = "none"

\* C13: Pop is atomic even while another handle on the same file writes the
\* same name: whenever a Pop has returned, the row it deleted is the row of
\* the conversation it returned (no row, and the empty conversation, when
\* the name was absent), so nothing is removed without being returned.
C13_PopAtomic ==
    \A h \in Handles :
        Popped(h) =>
            IF conn[h].deleted = <<>>
            THEN ChatView(conn[h].got) = ChatView(NoChat)
            ELSE ChatView(conn[h].got) = ChatView(Deserialize(conn[h].deleted[1]).chat)

\* C14: with several handles putting and getting the same name side by
\* side, every Get returns the empty conversation or a conversation whose
\* options, messages and exchange_log are those of one single committed Put,
\* and once no write is in flight the entry is the argument of the Put that
\* committed last (or absent, when the last committed write was a Delete).
C14_PutGetAtomic ==
    /\ \A h \in Handles :
          conn[h].op = "GetChat" =>
              \/ ChatView(conn[h].got) = ChatView(NoChat)
              \/ \E c \in hist.puts : ChatView(conn[h].got) = ChatView(c)
    /\ lock = 0 =>
          \A name \in ConcNames :
              /\ hist.last.kind = "put" =>
                    /\ name \in DOMAIN db
                    /\ ChatView(GetChat(db, name)) = ChatView(hist.last.chat)
              /\ hist.last.kind = "del" => name \notin DOMAIN db

C14_Witness ==
    \E h \in Handles, g \in Handles :
        /\ conn[h].op = "GetChat" /\ conn[h].got.messages # <<>>
        /\ conn[g].op = "AddChat" /\ conn[g].pc = "commit"
        /\ ChatView(conn[g].arg) # ChatView(conn[h].got)
        /\ lock = g
        /\ hist.last.kind = "put"
        /\ ChatView(conn[h].got) = ChatView(hist.last.chat)

\* C15: after self |= other, for every name that other holds a Get on self
\* returns other's conversation of that name (other wins where both hold the
\* name), every name of self that other does not hold keeps its entry, no
\* further name appears, and other holds what it held before.
C15_Merge ==
    dblast.op = "Ior" =>
        /\ DOMAIN db = (DOMAIN dblast.pre) \cup (DOMAIN dblast.other)
        /\ \A n \in DOMAIN dblast.other :
              ChatView(GetChat(db, n)) = ChatView(GetChat(dblast.other, n))
        /\ \A n \in (DOMAIN dblast.pre) \ (DOMAIN dblast.other) :
              db[n] = dblast.pre[n]
        /\ dblast.after = dblast.other

C15_Witness ==
    /\ dblast.op = "Ior"
    /\ \E n \in (DOMAIN dblast.pre) \cap (DOMAIN dblast.other) :
          /\ dblast.pre[n] # dblast.other[n]
          /\ db[n] = dblast.other[n]
    /\ \E n \in (DOMAIN dblast.pre) \ (DOMAIN dblast.other) : db[n] = dblast.pre[n]

\* C16: opening a store on a file that holds the table raises nothing and
\* leaves the names and the conversations readable exactly as they were
\* before the open; opening on a file without the table creates the table,
\* empty.
C16_Open ==
    dblast.op = "Open" =>
        /\ dblast.exc = "none"
        /\ table
        /\ dblast.ret =>
              /\ DOMAIN db = DOMAIN dblast.pre
              /\ \A n \in DOMAIN db :
                    ChatView(GetChat(db, n)) = ChatView(GetChat(dblast.pre, n))
        /\ ~dblast.ret => db = EmptyDict

C16_Witness ==
    /\ dblast.op = "Open"
    /\ dblast.ret
    /\ opened
    /\ Cardinality(DOMAIN db) = 2

\* the options of a request: the archived prompt without its messages
RequestOptions(e) == DictDel(e.prompt, "messages")

\* C17: a Send with override options sends and archives a request whose
\* options are the conversation's options with every override key replacing
\* the same-named key and every other key kept, and the conversation's own
\* options are the same after the call as before it, whether it succeeded or
\* failed, so a later Send without overrides uses the original values.
C17_SendOverrides ==
    last.op = "Send" =>
        /\ chat.args = last.pre.args
        /\ last.remote = "ok" =>
              LET o == RequestOptions(LogOf(chat)[Len(chat.prompts_and_responses)])
              IN /\ DOMAIN o = (DOMAIN last.pre.args) \cup (DOMAIN last.kw)
                 /\ \A k \in DOMAIN last.kw : o[k] = last.kw[k]
                 /\ \A k \in (DOMAIN last.pre.args) \ (DOMAIN last.kw) :
                       o[k] = last.pre.args[k]

C17_Witness ==
    /\ SendSucceeded
    /\ "temperature" \in DOMAIN last.kw
    /\ "temperature" \in DOMAIN last.pre.args
    /\ last.kw["temperature"] # last.pre.args["temperature"]
    /\ chat.args["temperature"] = last.pre.args["temperature"]
    /\ RequestOptions(LogOf(chat)[Len(chat.prompts_and_responses)])["model"] =
         last.pre.args["model"]

\* C18: two conversations whose messages sequences are equal compare equal
\* whatever their options and exchange_log, and two whose messages differ
\* compare unequal even when options and exchange_log are identical.
C18_EqualityByMessages ==
    alive =>
        \A o \in SampleChats \cup {last.pre} :
            /\ chat.messages = o.messages => ChatEq(chat, o) /\ ChatEq(o, chat)
            /\ chat.messages # o.messages => ~ChatEq(chat, o) /\ ~ChatEq(o, chat)

C18_Witness ==
    /\ alive
    /\ \E o \in SampleChats :
          /\ ChatEq(chat, o)
          /\ chat.messages # <<>>
          /\ chat.args # o.args
          /\ LogOf(chat) # LogOf(o)
    /\ ~ChatEq(chat, last.pre)
    /\ chat.args = last.pre.args
    /\ LogOf(chat) = LogOf(last.pre)

AddOps == {"User", "System", "Assistant"}

\* C19: a conversation created empty has length 0 and is false; every
\* AddMessage call makes messages exactly one longer, with the given message
\* as its new last element and every earlier element in place (a message
\* equal to an earlier one included), so that after any sequence of such
\* calls the length is the number of messages appended, in call order; and
\* the conversation is true exactly when its length is above 0.
C19_AddAppends ==
    /\ ChatBool(chat) <=> ChatLen(chat) > 0
    /\ (last.op = "Construct" /\ last.calls = 0 /\ alive) =>
          ChatLen(chat) = 0 /\ chat.messages = <<>>
    /\ last.op \in AddOps =>
          /\ ChatLen(chat) = ChatLen(last.pre) + 1
          /\ chat.messages =
               Append(last.pre.messages, [role |-> last.role, content |-> last.content])

C19_Witness ==
    /\ last.op \in AddOps
    /\ ChatLen(chat) = 2
    /\ chat.messages[1] = chat.messages[2]
    /\ chat.prompts_and_responses = <<>>
    /\ ChatBool(chat)

\* C20: every Send, alone or inside a chat turn or a construction with
\* content, invokes the Remote Completion Client exactly once, whether the
\* call succeeds or fails: a failure is not followed by a second attempt; a
\* call that never reaches Send invokes the client not at all.
C20_OneRemoteCall ==
    /\ last.remote \in {"ok", "fail"} => last.calls = 1
    /\ last.remote = "none" => last.calls = 0
    /\ last.op = "Send" => last.remote \in {"ok", "fail"}

C20_Witness ==
    /\ last.op \in ChatTurnOps
    /\ last.flag
    /\ last.remote = "fail"
    /\ last.calls = 1
    /\ last.exc = "RemoteError"

\* C21: constructing a conversation with a non-empty initial user message
\* appends that message and performs exactly one Send at once, so that after
\* a successful construction messages is the user message followed by the
\* assistant reply and exchange_log has exactly one entry; constructing
\* without initial content (None or the empty string) performs no send and
\* yields empty messages and an empty exchange_log.
C21_ConstructSends ==
    last.op = "Construct" =>
        IF Truthy(last.content)
        THEN /\ last.calls = 1
             /\ alive <=> last.remote = "ok"
             /\ alive =>
                   /\ Len(chat.messages) = 2
                   /\ chat.messages[1] = [role |-> "user", content |-> last.content]
                   /\ chat.messages[2].role = "assistant"
                   /\ Len(chat.prompts_and_responses) = 1
                   /\ LogOf(chat)[1].prompt["messages"] = <<chat.messages[1]>>
        ELSE /\ last.calls = 0
             /\ last.remote = "none"
             /\ alive
             /\ chat.messages = <<>>
             /\ chat.prompts_and_responses = <<>>

C21_Witness ==
    /\ last.op = "Construct"
    /\ Truthy(last.content)
    /\ alive
    /\ last.calls = 1
    /\ Len(chat.messages) = 2
    /\ "temperature" \in DOMAIN chat.args

\* C22: in a command-line run whose Send fails nothing is put: the store
\* is after the run what it was before it, and the message appended for the
\* failed send is in the process's conversation only, not in the entry
\* stored under the name.
C22_CliFailedSend ==
    (dblast.op = "Go" /\ last.remote = "fail") =>
        /\ ~dblast.ret
        /\ db = dblast.pre
        /\ ChatView(GetChat(db, dblast.name)) = ChatView(last.pre)
        /\ chat.messages =
              Append(last.pre.messages, [role |-> last.role, content |-> last.content])
        /\ last.exc = "RemoteError"

C22_Witness ==
    /\ dblast.op = "Go"
    /\ last.remote = "fail"
    /\ dblast.name \in DOMAIN db
    /\ Len(chat.messages) = Len(GetChat(db, dblast.name).messages) + 1

\* C23: a command-line run whose resolved content is empty ends without
\* any call to the Remote Completion Client and without any Put: the
\* entries of the store are the same after the run as before it.
C23_CliEmptyContent ==
    (dblast.op = "Go" /\ last.content = "") =>
        /\ last.calls = 0
        /\ ~dblast.ret
        /\ db = dblast.pre
        /\ dblast.exc = "none"

C23_Witness ==
    /\ dblast.op = "Go"
    /\ last.content = ""
    /\ last.calls = 0
    /\ DOMAIN db # {}
    /\ dblast.name \in DOMAIN db

\* ---------------------------------------------------------- rendering
Rendered == render.op = "GetContentStrTerm" /\ render.role = "assistant"
Positions(out, tok) == {i \in 1..Len(out) : out[i] = tok}
Elems(t) == {t[i] : i \in 1..Len(t)}

\* the match object of a section with these groups that ends at offset e
SectionAt(e, before, lang, code) ==
    [found |-> TRUE,
     start |-> e - (Len(before) + 3 + Len(lang) + 1 + Len(code) + 3),
     end |-> e, before |-> before, lang |-> lang, code |-> code]

\* C24 as stated: the content "before", space, three backticks, python,
\* newline, print(1), newline, three backticks, space, "after" is rendered
\* as exactly one code section with language tag python and body print(1).
C24_MidLineFence ==
    (Rendered /\ render.content = MidLineText)
        => /\ Len(render.matches) = 1
           /\ render.matches[1].lang = <<"python">>
           /\ "print(1)" \in Elems(render.matches[1].code)

\* C24, amended: with the opening fence at the start of a line (the content
\* "before", newline, three backticks, python, newline, print(1), newline,
\* three backticks, space, "after") there is exactly one code section, its
\* language tag is python, its body holds print(1), and "before" and
\* "after" are written outside it: before its start and after its end.
C24_LineStartFence ==
    (Rendered /\ render.content = LineStartText)
        => /\ render.matches =
                <<SectionAt(12, <<"before", "\n">>, <<"python">>, <<"print(1)", "\n">>)>>
           /\ render.tail = <<" ", "after">>
           /\ render.palette = "marked_colors" =>
                \E cb, ce \in 1..Len(render.out) :
                    /\ Positions(render.out, "ESC[cb]") = {cb}
                    /\ Positions(render.out, "ESC[ce]") = {ce}
                    /\ \A i \in Positions(render.out, "before") : i < cb
                    /\ \A i \in Positions(render.out, "print(1)") : cb < i /\ i < ce
                    /\ \A i \in Positions(render.out, "after") : ce < i
                    /\ \A i \in Positions(render.out, "python") :
                            render.out[i - 1] = "ESC[cl]" /\ i < cb
                    /\ Positions(render.out, "before") # {}
                    /\ Positions(render.out, "print(1)") # {}
                    /\ Positions(render.out, "after") # {}
                    /\ Positions(render.out, "python") # {}

C24_Witness ==
    /\ Rendered
    /\ render.content = LineStartText
    /\ render.palette = "marked_colors"
    /\ Len(render.matches) = 1

\* one code section per section of d, in order, each with its own
\* language tag and body, and the text of d around them as plain spans
SegmentedAs(d) ==
    /\ Len(render.matches) = Len(d.secs)
    /\ \A i \in 1..Len(d.secs) :
            /\ i <= Len(render.matches)
            /\ render.matches[i].before = d.plain[i]
            /\ render.matches[i].lang = d.secs[i].lang
            /\ render.matches[i].code = d.secs[i].code
    /\ render.tail = d.plain[Len(d.secs) + 1]
    /\ render.palette = "marked_colors" =>
            Cardinality(Positions(render.out, "ESC[cb]")) = Len(d.secs)

\* the body of every section of d is made of whole lines, at least one
WholeLineBodies(d) == \A i \in 1..Len(d.secs) : d.secs[i].code # <<>>

\* C25 as stated: content with two or more fenced sections, each opening
\* fence at the start of a line and each closing fence on a later line, is
\* rendered as one code section per fenced section.
C25_EverySection ==
    (Rendered /\ Len(render.doc.secs) >= 2) => SegmentedAs(render.doc)

\* C25, amended: content with two or more fenced sections, each opening
\* fence at the start of a line and each body made of at least one whole
\* line, so that the closing fence starts the line after the newline that
\* ends the body, is rendered as one code section per fenced section, in
\* order, each with its own language tag and body, never as one section
\* from the first opening fence to the last closing fence, and the text
\* between two sections is a plain span.
C25_WholeLineSections ==
    (Rendered /\ Len(render.doc.secs) >= 2 /\ WholeLineBodies(render.doc))
        => SegmentedAs(render.doc)

C25_Witness ==
    /\ Rendered
    /\ render.palette = "marked_colors"
    /\ Len(render.matches) = 2
    /\ Len(render.doc.secs) = 2
    /\ WholeLineBodies(render.doc)
    /\ render.matches[1].code # render.matches[2].code
    /\ render.matches[1].lang # render.matches[2].lang

\* a fenced section written back as text
RECURSIVE Unsegment(_)
Unsegment(ms) ==
    IF ms = <<>>
    THEN <<>>
    ELSE Head(ms).before \o Fence \o Head(ms).lang \o <<"\n">> \o Head(ms).code
            \o Fence \o Unsegment(Tail(ms))

\* C29: the plain spans and fenced sections the scanner goes through, in
\* order and ending with the tail, put together again are the content: each
\* section starts where the one before ended, nothing is dropped,
\* duplicated or moved.
C29_Partition ==
    Rendered =>
        /\ Unsegment(render.matches) \o render.tail = render.content
        /\ \A i \in 1..Len(render.matches) :
                /\ render.matches[i].start =
                        (IF i = 1 THEN 0 ELSE render.matches[i - 1].end)
                /\ render.matches[i].end - render.matches[i].start =
                        Len(render.matches[i].before) + Len(render.matches[i].lang)
                            + Len(render.matches[i].code) + 7

C29_Witness ==
    /\ Rendered
    /\ Len(render.matches) = 2
    /\ render.matches[1].before # <<>>
    /\ render.matches[2].before # <<>>
    /\ render.tail # <<>>

\* the escape sequences: those that start a style of some palette, the
\* one that ends every style, and the highlighter's own
StyleEntries == {"ROLE_HEADER_COLOR", "USER_ROLE", "USER_CONTENT", "ASSISTANT_ROLE",
                 "ASSISTANT_CONTENT", "SYSTEM_ROLE", "SYSTEM_CONTENT", "CODE_BEGIN",
                 "CODE_SEP_STARTER", "CODE_SEP_ENDER", "CODE_SEP_LANG",
                 "KEYWORD_BEGIN"}
StyleStarts == UNION {Elems(Palette(p)[e]) : p \in PaletteNames, e \in StyleEntries}
StyleReset == "ESC[0m"
HighlighterEscapes == Elems(Highlight(<<>>))
Escapes == StyleStarts \cup {StyleReset} \cup HighlighterEscapes

\* the style started at position i of out is ended at position j: up to
\* there comes no start of another style (the escapes right after i belong
\* to the same palette entry)
ClosedAt(out, i, j) ==
    /\ out[j] = StyleReset
    /\ \A k \in (i + 1)..(j - 1) :
            out[k] \in StyleStarts => \A q \in i..k : out[q] \in StyleStarts

\* C26: in the output of every rendering, of one message or of a whole
\* conversation, with every palette, each escape sequence that starts a
\* style is followed by the style reset before a different style starts
\* and before the output ends.
C26_StylesClosed ==
    render.op # "None" =>
        \A i \in 1..Len(render.out) :
            render.out[i] \in StyleStarts =>
                \E j \in (i + 1)..Len(render.out) : ClosedAt(render.out, i, j)

C26_Witness ==
    /\ render.op = "StrTerm"
    /\ render.palette = "black_background_colors"
    /\ Len(render.messages) = 2
    /\ {"ESC[96m", "ESC[34m", "ESC[4m"} \subseteq Elems(render.out)

\* C27: what is rendered with the plain palette holds no escape sequence.
C27_PlainNoEscapes ==
    (render.op # "None" /\ render.palette = "nocolors")
        => Elems(render.out) \cap Escapes = {}

\* an inline part as the claim has it rendered: a plain part as it is, a
\* token with its two backticks kept, the keyword style around the text
\* between them only, and the content style started again
StyledPart(part, colors) ==
    IF part.kw
    THEN <<BT>> \o colors.ENDC \o colors.KEYWORD_BEGIN \o part.text \o colors.ENDC
            \o colors.ASSISTANT_CONTENT \o <<BT>>
    ELSE part.text

RECURSIVE StyledParts(_, _)
StyledParts(parts, colors) ==
    IF parts = <<>>
    THEN <<>>
    ELSE StyledPart(Head(parts), colors) \o StyledParts(Tail(parts), colors)

RECURSIVE Unstyled(_)
Unstyled(out) ==
    IF out = <<>> THEN <<>>
    ELSE IF Head(out) \in Escapes THEN Unstyled(Tail(out))
    ELSE <<Head(out)>> \o Unstyled(Tail(out))

\* C28: an assistant content written as plain parts and inline tokens
\* between single backticks is rendered part by part: both backticks of a
\* token are kept, the keyword style covers exactly the text between them
\* and the assistant content style starts again after it, and a plain part
\* is written as it is; without its escape sequences the output of a
\* content that has no fenced section is the content.
C28_InlineKeyword ==
    /\ (Rendered /\ render.parts # <<>>) =>
            LET colors == Palette(render.palette)
            IN render.out =
                 RoleHeader(colors) \o colors.ASSISTANT_ROLE \o <<"assistant">>
                    \o colors.ENDC \o <<"\n">>
                    \o colors.ASSISTANT_CONTENT \o StyledParts(render.parts, colors)
                    \o colors.ENDC \o <<"\n">>
    /\ (Rendered /\ render.matches = <<>>) =>
            Unstyled(render.out) =
                Palette(render.palette).ROLE_HEADER \o <<" ", "assistant", "\n">>
                    \o render.content \o <<"\n">>

C28_Witness ==
    /\ Rendered
    /\ render.parts # <<>>
    /\ render.content = KeywordText
    /\ render.palette = "marked_colors"
    /\ "ESC[kw]" \in Elems(render.out)

\* ------------------------------------------------ objects around a store
\* C30: a call that changes a conversation object (AddMessage, pop, Send,
\* ChatTurn) leaves every stored entry as it was, so an entry stays what
\* the last Put made it, and leaves every conversation that another Get
\* returned as it was.
C30_Snapshots ==
    [][snap'.op \in MutateOps /\ snap'.n # snap.n =>
          /\ TableOf(objs', rows') = TableOf(objs, rows)
          /\ \A j \in 1..Len(refs) :
                (j # snap'.h /\ refs[j].kind = "get")
                    => objs'[refs[j].id] = objs[refs[j].id]]_vars

\* a conversation was put and then changed, or was returned by a Get and
\* then changed while another Get of the same name is held
C30_Witness ==
    /\ snap.op \in MutateOps
    /\ \/ /\ refs[snap.h].kind = "new"
          /\ \E name \in DOMAIN rows :
                /\ rows[name].from = refs[snap.h].id
                /\ RowText(objs, rows[name]) # JSONDump(objs[refs[snap.h].id])
       \/ /\ refs[snap.h].kind = "get"
          /\ refs[snap.h].name \in DOMAIN rows
          /\ \E j \in 1..Len(refs) :
                /\ j # snap.h
                /\ refs[j].kind = "get"
                /\ refs[j].name = refs[snap.h].name
                /\ objs[refs[j].id] # objs[refs[snap.h].id]

====
